---- MODULE Spec2Model ----
(***************************************************************************)
(* Model of the text line sampler server (src/src/server.py): the shared   *)
(* LineCache (lines, lock, _total_loaded, _total_sampled) and the request  *)
(* handlers /load, /sample, /stats, /clear and /reset that worker threads  *)
(* run against it.  Every acquisition and release of LineCache.lock is a   *)
(* step of its own, so that what another thread can see between two        *)
(* critical sections is what the model lets it see.                        *)
(***************************************************************************)
EXTENDS Integers, Sequences, FiniteSets, TLC

VARIABLES
    lines,          \* LineCache.lines: the list of cached lines
    total_loaded,   \* LineCache._total_loaded
    total_sampled,  \* LineCache._total_sampled
    lock,           \* LineCache.lock: the thread that holds it, or NoOwner
    pc,             \* where each request thread stands
    frame,          \* the locals of the call each thread is running
    hist,           \* per thread, the answers to its requests that reached
                    \* the cache (history)
    ncalls,         \* number of requests issued so far
    loaded,         \* history: every element ever appended to lines
    cleared         \* history: lines dropped by /clear since the last /reset

vars == <<lines, total_loaded, total_sampled, lock, pc, frame, hist, ncalls,
          loaded, cleared>>

pool == <<lines, total_loaded, total_sampled>>

----------------------------------------------------------------------------
(* Bounds of the model. *)

\* requests issued in one behaviour
MaxCalls == 3

\* requests issued in one behaviour of the fair specification
MaxFairCalls == 2

Threads == {"t1", "t2"}

NoOwner == "none"

----------------------------------------------------------------------------
(* Program constants, scaled down. *)

MAX_FILE_SIZE_MB == 2
MAX_CACHE_LINES == 5
MAX_SAMPLE_SIZE == 2
chunk_size == 2

----------------------------------------------------------------------------
(* The files a /load request can name: whether os.stat and open succeed,   *)
(* the size os.stat reports, and the lines the file holds.                 *)

FileSys ==
    [ A |-> [exists |-> TRUE, readable |-> TRUE, size_mb |-> 1,
             content |-> <<"a", "b", "c">>],
      B |-> [exists |-> TRUE, readable |-> TRUE, size_mb |-> 1,
             content |-> <<"d", "e">>],
      E |-> [exists |-> TRUE, readable |-> TRUE, size_mb |-> 0,
             content |-> <<>>],
      M |-> [exists |-> FALSE, readable |-> FALSE, size_mb |-> 0,
             content |-> <<>>],
      U |-> [exists |-> TRUE, readable |-> FALSE, size_mb |-> 1,
             content |-> <<"u">>],
      G |-> [exists |-> TRUE, readable |-> TRUE, size_mb |-> 3,
             content |-> <<"g">>] ]

FileNames == DOMAIN FileSys

\* the counts a /sample request can carry
SampleArgs == (0 - 1) .. (MAX_SAMPLE_SIZE + 1)

----------------------------------------------------------------------------
(* Helpers on sequences. *)

Min(a, b) == IF a <= b THEN a ELSE b

\* to_add = batch: the batch is not cut to what still fits
Prefix_Whole(s, n) == s

\* batch[:n]
Prefix(s, n) == SubSeq(s, 1, Min(n, Len(s)))

\* the strings of a list of elements
Texts(s) == [j \in DOMAIN s |-> s[j].text]

\* the elements of a list, as a set
Elems(s) == {s[j] : j \in DOMAIN s}

\* lines[-1] = lines[i]: the last element is not put in the place of the
\* one drawn
SwapWithLast_OneWay(s, i) == [s EXCEPT ![Len(s)] = s[i + 1]]

\* lines[i], lines[-1] = lines[-1], lines[i]    (i counts from 0)
SwapWithLast(s, i) ==
    [s EXCEPT ![i + 1] = s[Len(s)], ![Len(s)] = s[i + 1]]

\* the last element is read but left in the list
PopRest_NoRemove(s) == s

\* lines.pop(): the list without its last element
PopRest(s) == SubSeq(s, 1, Len(s) - 1)

\* Each string read from a file becomes one element of lines.  An element
\* carries a tag, unique per append, so that two equal strings stay two
\* elements; the program never reads the tag.
Tagged(texts, base) ==
    [j \in DOMAIN texts |-> [id |-> base + j, text |-> texts[j]]]

----------------------------------------------------------------------------
(* Pure parts of the code. *)

\* the for loop of load: the next batch of at most chunk_size lines, read
\* from position pos of the file
NextBatch(content, pos) ==
    SubSeq(content, pos + 1, Min(pos + chunk_size, Len(content)))

\* the check that lets a file of any size through
FileCheck_NoSizeLimit(f) ==
    IF ~FileSys[f].exists THEN 404
    ELSE IF ~FileSys[f].readable THEN 403
    ELSE 200

\* load, before it opens the file: os.stat, the size limit, open
FileCheck(f) ==
    IF ~FileSys[f].exists THEN 404
    ELSE IF FileSys[f].size_mb > MAX_FILE_SIZE_MB THEN 400
    ELSE IF ~FileSys[f].readable THEN 403
    ELSE 200

\* SampleRequest: n must be >= 0, or the request is refused with 422
RequestCheck(n) == IF n < 0 THEN 422 ELSE 200

\* the check without the upper limit
SampleCheck_NoLimit(n) == IF n < 0 THEN 400 ELSE 200

\* sample, before it takes the lock
SampleCheck(n) ==
    IF n < 0 THEN 400
    ELSE IF n > MAX_SAMPLE_SIZE THEN 400
    ELSE 200

\* _flush_batch: how many lines of the batch still fit
Remaining(ls) == MAX_CACHE_LINES - Len(ls)

\* k is n, however few lines there are
SampleK_NoClamp(n, ls) == n

\* a count of 0 is taken for 1
SampleK_AtLeastOne(n, ls) == Min(IF n = 0 THEN 1 ELSE n, Len(ls))

\* sample: k = min(n, len(self.lines))
SampleK(n, ls) == Min(n, Len(ls))

\* the batch replaces the list
Extended_Overwrite(ls, new) == new

\* _flush_batch: self.lines.extend(to_add)
Extended(ls, new) == ls \o new

\* _flush_batch returns the length of the batch it was given
FlushReturn_BatchLen(batch, count) == Len(batch)

\* _flush_batch: return len(to_add)
FlushReturn(batch, count) == count

\* self.total_loaded = count: the counter forgets the earlier batches
LoadedAfter_Overwrite(tl, count) == count

\* _flush_batch: self._total_loaded += len(to_add)
LoadedAfter(tl, count) == tl + count

\* self._total_sampled = count: the counter forgets the earlier samples
SampledAfter_Overwrite(ts, k) == k

\* the counter counts calls, not lines
SampledAfter_CountsCalls(ts, k) == ts + 1

\* sample: self._total_sampled += k
SampledAfter(ts, k) == ts + k

\* get_stats: the dict it returns, from the three values it has read
StatsOf(cur, tl, ts) == <<cur, tl, ts>>

----------------------------------------------------------------------------
(* Locals and responses. *)

NoStats == <<0 - 1, 0 - 1, 0 - 1>>

\* the pool as a critical section found it (history); none outside one
NoSnapshot == [lines |-> <<>>, total_loaded |-> 0, total_sampled |-> 0]

\* batch, pos, appended, k and out are the locals of load, _flush_batch and
\* sample; st holds what get_stats has read.  The rest is history of the
\* call: pre, the pool as its critical section found it; added, the
\* elements it has put into lines; raised, by how much it has raised
\* _total_loaded; cut, whether a batch of it was truncated; after,
\* len(lines) when it last changed lines (-1: it has not).
IdleFrame ==
    [op |-> "none", file |-> "", n |-> 0, batch |-> <<>>, pos |-> 0,
     appended |-> 0, k |-> 0, out |-> <<>>, status |-> 200,
     st |-> NoStats, pre |-> NoSnapshot,
     added |-> 0, raised |-> 0, cut |-> FALSE, after |-> 0 - 1]

\* the sizes of a pool
Sizes(ls, tl, ts) == <<Len(ls), tl, ts>>

\* The answer to a request: status, count, out and stats are what the
\* handler sends.  The rest is history: found and left are the sizes of the
\* pool when the last critical section of the request was entered and when
\* it was left.
Response(fr, status, count, stats, left) ==
    [op |-> fr.op, file |-> fr.file, n |-> fr.n, status |-> status,
     count |-> count, out |-> fr.out, added |-> fr.added,
     raised |-> fr.raised, cut |-> fr.cut, after |-> fr.after,
     stats |-> stats,
     found |-> Sizes(fr.pre.lines, fr.pre.total_loaded,
                     fr.pre.total_sampled),
     left |-> left]

\* the thread's request is answered: back to idle
Answer(t, r) ==
    /\ pc' = [pc EXCEPT ![t] = "idle"]
    /\ frame' = [frame EXCEPT ![t] = IdleFrame]
    /\ hist' = [hist EXCEPT ![t] = Append(@, r)]

\* the request is refused before the cache is touched: the handler is left
\* with the error to send
Refused(t, fr, status) ==
    /\ pc' = [pc EXCEPT ![t] = "refused"]
    /\ frame' = [frame EXCEPT ![t] = [fr EXCEPT !.status = status]]
    /\ hist' = hist

Goto(t, where, fr) ==
    /\ pc' = [pc EXCEPT ![t] = where]
    /\ frame' = [frame EXCEPT ![t] = fr]
    /\ hist' = hist

\* the critical section is entered whoever holds the lock
LockFree_NotChecked == TRUE

\* with self.lock: entering
LockFree == lock = NoOwner

Acquire(t) == lock' = t

Release == lock' = NoOwner

\* the with block is left by an exception, and the lock stays taken
ReleaseOnRaise_KeepsLock == lock' = lock

\* with self.lock: left by an exception, the lock is released all the same
ReleaseOnRaise == Release

\* the pool as the critical section being entered finds it (history)
Snapshot == [lines |-> lines, total_loaded |-> total_loaded,
             total_sampled |-> total_sampled]

----------------------------------------------------------------------------
Init ==
    /\ lines = <<>>
    /\ total_loaded = 0
    /\ total_sampled = 0
    /\ lock = NoOwner
    /\ pc = [t \in Threads |-> "idle"]
    /\ frame = [t \in Threads |-> IdleFrame]
    /\ hist = [t \in Threads |-> <<>>]
    /\ ncalls = 0
    /\ loaded = {}
    /\ cleared = 0

----------------------------------------------------------------------------
(* POST /load *)

\* the handler calls cache.load: the file checks, then the first batch is
\* read; a file without lines returns 0 without any flush
LoadCall(t, f) ==
    /\ pc[t] = "idle"
    /\ ncalls < MaxCalls
    /\ ncalls' = ncalls + 1
    /\ LET fr0 == [IdleFrame EXCEPT !.op = "load", !.file = f]
           b == NextBatch(FileSys[f].content, 0)
       IN IF FileCheck(f) # 200
          THEN Refused(t, fr0, FileCheck(f))
          ELSE IF b = <<>>
          THEN Goto(t, "stats_lock", fr0)
          ELSE Goto(t, "flush_lock",
                    [fr0 EXCEPT !.batch = b, !.pos = Len(b)])
    /\ UNCHANGED <<lines, total_loaded, total_sampled, lock, loaded, cleared>>

\* _flush_batch: with self.lock
FlushLock(t) ==
    /\ pc[t] = "flush_lock"
    /\ LockFree
    /\ Acquire(t)
    /\ Goto(t, "flush_extend", [frame[t] EXCEPT !.pre = Snapshot])
    /\ UNCHANGED <<lines, total_loaded, total_sampled, ncalls, loaded, cleared>>

\* _flush_batch: the limit check, to_add = batch[:remaining], lines.extend;
\* at the limit it raises, the lock is released and /load answers 400
FlushExtend(t) ==
    /\ pc[t] = "flush_extend"
    /\ LET fr == frame[t]
           to_add == Prefix(fr.batch, Remaining(lines))
           new == Tagged(to_add, Cardinality(loaded))
       IN IF Remaining(lines) <= 0
          THEN /\ ReleaseOnRaise
               /\ Answer(t, Response(fr, 400, 0, NoStats,
                              Sizes(lines, total_loaded, total_sampled)))
               /\ UNCHANGED <<lines, loaded>>
          ELSE /\ lines' = Extended(lines, new)
               /\ loaded' = loaded \cup Elems(new)
               /\ Goto(t, "flush_count",
                       [fr EXCEPT !.k = Len(to_add),
                                  !.added = @ + Len(lines') - Len(lines),
                                  !.cut = @ \/ Len(to_add) < Len(fr.batch),
                                  !.after = Len(lines')])
               /\ UNCHANGED lock
    /\ UNCHANGED <<total_loaded, total_sampled, ncalls, cleared>>

\* _flush_batch: _total_loaded += len(to_add), the lock is released; load
\* adds the count to appended and reads the next batch, or returns
FlushCount(t) ==
    /\ pc[t] = "flush_count"
    /\ total_loaded' = LoadedAfter(total_loaded, frame[t].k)
    /\ Release
    /\ LET fr == frame[t]
           b == NextBatch(FileSys[fr.file].content, fr.pos)
           fr1 == [fr EXCEPT !.appended = @ + FlushReturn(fr.batch, fr.k),
                             !.raised = @ + total_loaded' - total_loaded,
                             !.k = 0, !.pre = NoSnapshot]
       IN IF b = <<>>
          THEN Goto(t, "stats_lock", [fr1 EXCEPT !.batch = <<>>])
          ELSE Goto(t, "flush_lock",
                    [fr1 EXCEPT !.batch = b, !.pos = @ + Len(b)])
    /\ UNCHANGED <<lines, total_sampled, ncalls, loaded, cleared>>

----------------------------------------------------------------------------
(* POST /sample *)

\* the request model refuses n < 0; cache.sample refuses what it does not
\* accept, before it takes the lock
SampleCall(t, n) ==
    /\ pc[t] = "idle"
    /\ ncalls < MaxCalls
    /\ ncalls' = ncalls + 1
    /\ LET fr0 == [IdleFrame EXCEPT !.op = "sample", !.n = n]
       IN IF RequestCheck(n) # 200
          THEN Refused(t, fr0, RequestCheck(n))
          ELSE IF SampleCheck(n) # 200
          THEN Refused(t, fr0, SampleCheck(n))
          ELSE Goto(t, "sample_lock", fr0)
    /\ UNCHANGED <<lines, total_loaded, total_sampled, lock, loaded, cleared>>

\* sample: with self.lock, k = min(n, len(self.lines)), out = []
SampleLock(t) ==
    /\ pc[t] = "sample_lock"
    /\ LockFree
    /\ Acquire(t)
    /\ LET k == SampleK(frame[t].n, lines)
       IN Goto(t, IF k > 0 THEN "sample_draw" ELSE "sample_count",
               [frame[t] EXCEPT !.k = k, !.out = <<>>, !.pre = Snapshot])
    /\ UNCHANGED <<lines, total_loaded, total_sampled, ncalls, loaded, cleared>>

\* one round of the loop: i = random.randrange(len(self.lines)), the swap
\* with the last element, out.append(self.lines.pop()).  randrange(0)
\* raises ValueError: the lock is released and /sample answers 400
SampleDraw(t) ==
    /\ pc[t] = "sample_draw"
    /\ IF Len(lines) = 0
       THEN /\ ReleaseOnRaise
            /\ Answer(t, Response(frame[t], 400, 0, NoStats,
                           Sizes(lines, total_loaded, total_sampled)))
            /\ UNCHANGED lines
       ELSE /\ \E i \in 0 .. (Len(lines) - 1) :
                 LET swapped == SwapWithLast(lines, i)
                     fr == [frame[t] EXCEPT
                              !.out = Append(@, swapped[Len(swapped)])]
                 IN /\ lines' = PopRest(swapped)
                    /\ Goto(t, IF Len(fr.out) < fr.k THEN "sample_draw"
                               ELSE "sample_count", fr)
            /\ UNCHANGED lock
    /\ UNCHANGED <<total_loaded, total_sampled, ncalls, loaded, cleared>>

\* _total_sampled += k, the lock is released and out is returned
SampleCount(t) ==
    /\ pc[t] = "sample_count"
    /\ total_sampled' = SampledAfter(total_sampled, frame[t].k)
    /\ Release
    /\ Goto(t, "stats_lock",
            [frame[t] EXCEPT !.pre = NoSnapshot, !.after = Len(lines)])
    /\ UNCHANGED <<lines, total_loaded, ncalls, loaded, cleared>>

----------------------------------------------------------------------------
(* a refused request: the handler raises HTTPException(status), or the     *)
(* request model has answered 422; nothing of the cache is touched         *)

Refuse(t) ==
    /\ pc[t] = "refused"
    /\ pc' = [pc EXCEPT ![t] = "idle"]
    /\ frame' = [frame EXCEPT ![t] = IdleFrame]
    /\ UNCHANGED <<lines, total_loaded, total_sampled, lock, hist, ncalls,
                   loaded, cleared>>

----------------------------------------------------------------------------
(* GET /stats, and the get_stats call that ends /load and /sample *)

StatsCall(t) ==
    /\ pc[t] = "idle"
    /\ ncalls < MaxCalls
    /\ ncalls' = ncalls + 1
    /\ Goto(t, "stats_lock", [IdleFrame EXCEPT !.op = "stats"])
    /\ UNCHANGED <<lines, total_loaded, total_sampled, lock, loaded, cleared>>

\* get_stats: with self.lock
StatsLock(t) ==
    /\ pc[t] = "stats_lock"
    /\ LockFree
    /\ Acquire(t)
    /\ Goto(t, "stats_len", [frame[t] EXCEPT !.pre = Snapshot])
    /\ UNCHANGED <<lines, total_loaded, total_sampled, ncalls, loaded, cleared>>

\* get_stats: "current_lines": len(self.lines)
StatsLen(t) ==
    /\ pc[t] = "stats_len"
    /\ Goto(t, "stats_loaded", [frame[t] EXCEPT !.st[1] = Len(lines)])
    /\ UNCHANGED <<lines, total_loaded, total_sampled, lock, ncalls, loaded,
                   cleared>>

\* get_stats: "total_loaded": self._total_loaded
StatsLoaded(t) ==
    /\ pc[t] = "stats_loaded"
    /\ Goto(t, "stats_read", [frame[t] EXCEPT !.st[2] = total_loaded])
    /\ UNCHANGED <<lines, total_loaded, total_sampled, lock, ncalls, loaded,
                   cleared>>

\* get_stats: "total_sampled": self._total_sampled; the dict is returned,
\* the lock released, and the handler answers
StatsRead(t) ==
    /\ pc[t] = "stats_read"
    /\ Release
    /\ LET fr == frame[t]
           st == StatsOf(fr.st[1], fr.st[2], total_sampled)
       IN Answer(t, Response(fr, 200,
                    IF fr.op = "load" THEN fr.appended
                    ELSE IF fr.op = "sample" THEN Len(fr.out)
                    ELSE 0, st,
                    Sizes(lines, total_loaded, total_sampled)))
    /\ UNCHANGED <<lines, total_loaded, total_sampled, ncalls, loaded, cleared>>

----------------------------------------------------------------------------
(* POST /clear *)

ClearCall(t) ==
    /\ pc[t] = "idle"
    /\ ncalls < MaxCalls
    /\ ncalls' = ncalls + 1
    /\ Goto(t, "clear_lock", [IdleFrame EXCEPT !.op = "clear"])
    /\ UNCHANGED <<lines, total_loaded, total_sampled, lock, loaded, cleared>>

ClearLock(t) ==
    /\ pc[t] = "clear_lock"
    /\ LockFree
    /\ Acquire(t)
    /\ Goto(t, "clear_body", [frame[t] EXCEPT !.pre = Snapshot])
    /\ UNCHANGED <<lines, total_loaded, total_sampled, ncalls, loaded, cleared>>

\* the clear that also zeroes the lifetime counters
ClearBody_ResetsCounters(t) ==
    /\ pc[t] = "clear_body"
    /\ lines' = <<>>
    /\ total_loaded' = 0
    /\ total_sampled' = 0
    /\ cleared' = cleared + Len(lines)
    /\ Release
    /\ UNCHANGED <<ncalls, loaded>>
    /\ Answer(t, Response(frame[t], 200, Len(lines), NoStats,
                   Sizes(lines', total_loaded', total_sampled')))

\* count = len(self.lines); self.lines.clear(); return count
ClearBody(t) ==
    /\ pc[t] = "clear_body"
    /\ lines' = <<>>
    /\ cleared' = cleared + Len(lines)
    /\ Release
    /\ UNCHANGED <<total_loaded, total_sampled, ncalls, loaded>>
    /\ Answer(t, Response(frame[t], 200, Len(lines), NoStats,
                   Sizes(lines', total_loaded', total_sampled')))

----------------------------------------------------------------------------
(* POST /reset *)

ResetCall(t) ==
    /\ pc[t] = "idle"
    /\ ncalls < MaxCalls
    /\ ncalls' = ncalls + 1
    /\ Goto(t, "reset_lock", [IdleFrame EXCEPT !.op = "reset"])
    /\ UNCHANGED <<lines, total_loaded, total_sampled, lock, loaded, cleared>>

ResetLock(t) ==
    /\ pc[t] = "reset_lock"
    /\ LockFree
    /\ Acquire(t)
    /\ Goto(t, "reset_body", [frame[t] EXCEPT !.pre = Snapshot])
    /\ UNCHANGED <<lines, total_loaded, total_sampled, ncalls, loaded, cleared>>

\* the reset that leaves _total_sampled as it is
ResetBody_KeepsSampled(t) ==
    /\ pc[t] = "reset_body"
    /\ lines' = <<>>
    /\ total_loaded' = 0
    /\ cleared' = 0
    /\ Release
    /\ UNCHANGED <<total_sampled, ncalls, loaded>>
    /\ Answer(t, Response(frame[t], 200, Len(lines), NoStats,
                   Sizes(lines', total_loaded', total_sampled')))

\* the reset that leaves _total_loaded as it is
ResetBody_KeepsLoaded(t) ==
    /\ pc[t] = "reset_body"
    /\ lines' = <<>>
    /\ total_sampled' = 0
    /\ cleared' = 0
    /\ Release
    /\ UNCHANGED <<total_loaded, ncalls, loaded>>
    /\ Answer(t, Response(frame[t], 200, Len(lines), NoStats,
                   Sizes(lines', total_loaded', total_sampled')))

\* cleared = len(self.lines); self.lines.clear(); both counters = 0
ResetBody(t) ==
    /\ pc[t] = "reset_body"
    /\ lines' = <<>>
    /\ total_loaded' = 0
    /\ total_sampled' = 0
    /\ cleared' = 0
    /\ Release
    /\ UNCHANGED <<ncalls, loaded>>
    /\ Answer(t, Response(frame[t], 200, Len(lines), NoStats,
                   Sizes(lines', total_loaded', total_sampled')))

----------------------------------------------------------------------------
(* Specifications. *)

Load(t) ==
    \/ \E f \in FileNames : LoadCall(t, f)
    \/ FlushLock(t)
    \/ FlushExtend(t)
    \/ FlushCount(t)

Sample(t) ==
    \/ \E n \in SampleArgs : SampleCall(t, n)
    \/ SampleLock(t)
    \/ SampleDraw(t)
    \/ SampleCount(t)

Stats(t) ==
    \/ StatsCall(t)
    \/ StatsLock(t)
    \/ StatsLen(t)
    \/ StatsLoaded(t)
    \/ StatsRead(t)

Clear(t) ==
    \/ ClearCall(t)
    \/ ClearLock(t)
    \/ ClearBody(t)

Reset(t) ==
    \/ ResetCall(t)
    \/ ResetLock(t)
    \/ ResetBody(t)

\* every request the server accepts
Next ==
    \E t \in Threads :
        Load(t) \/ Sample(t) \/ Stats(t) \/ Clear(t) \/ Reset(t) \/ Refuse(t)

Spec == Init /\ [][Next]_vars

\* only /load, /sample and /stats requests
NextLS == \E t \in Threads : Load(t) \/ Sample(t) \/ Stats(t) \/ Refuse(t)

SpecLS == Init /\ [][NextLS]_vars

\* the steps of the call thread t is running, once the request is issued
Proceed(t) ==
    \/ FlushLock(t) \/ FlushExtend(t) \/ FlushCount(t)
    \/ SampleLock(t) \/ SampleDraw(t) \/ SampleCount(t)
    \/ StatsLock(t) \/ StatsLen(t) \/ StatsLoaded(t) \/ StatsRead(t)
    \/ ClearLock(t) \/ ClearBody(t)
    \/ ResetLock(t) \/ ResetBody(t)
    \/ Refuse(t)

\* thread t issues a request
Issue(t) ==
    \/ \E f \in FileNames : LoadCall(t, f)
    \/ \E n \in SampleArgs : SampleCall(t, n)
    \/ StatsCall(t)
    \/ ClearCall(t)
    \/ ResetCall(t)

\* every request the server accepts, MaxFairCalls of them
NextFair ==
    \E t \in Threads :
        \/ Proceed(t)
        \/ ncalls < MaxFairCalls /\ Issue(t)

\* Fair scheduling: a worker thread that can go on with its call does so in
\* the end.  Requests need not arrive, so issuing one is not a fair step.
SpecFair ==
    /\ Init
    /\ [][NextFair]_vars
    /\ \A t \in Threads : WF_vars(Proceed(t))

----------------------------------------------------------------------------
(* What the claims speak of. *)

\* thread t takes the step
Step(t) ==
    \/ pc'[t] # pc[t]
    \/ frame'[t] # frame[t]
    \/ Len(hist'[t]) # Len(hist[t])

AllIdle == \A t \in Threads : pc[t] = "idle"

\* I1 of the pool
I1 == Len(lines) = total_loaded - total_sampled

\* the responses received so far, as (thread, position) pairs
Answered == UNION {{<<t, j>> : j \in 1 .. Len(hist[t])} : t \in Threads}

Resp(a) == hist[a[1]][a[2]]

Has(a) == a[2] <= Len(hist[a[1]])

\* the sampled elements in the first j answers to thread t
RECURSIVE OutsUpTo(_, _)
OutsUpTo(t, j) ==
    IF j = 0 THEN <<>> ELSE OutsUpTo(t, j - 1) \o hist[t][j].out

\* the sampled elements handed to thread t so far, in the order it got
\* them: those of its answered requests, then those its running sample has
\* drawn
OutsOf(t) == OutsUpTo(t, Len(hist[t])) \o frame[t].out

\* and those handed to the threads of T
RECURSIVE AllOuts(_)
AllOuts(T) ==
    IF T = {} THEN <<>>
    ELSE LET t == CHOOSE x \in T : TRUE
         IN OutsOf(t) \o AllOuts(T \ {t})

NoRepeat(s) == \A i, j \in DOMAIN s : i # j => s[i] # s[j]

DistinctTexts == \A e1, e2 \in loaded : e1.text = e2.text => e1 = e2

----------------------------------------------------------------------------
(* C1 *)

\* C1: with only Load, Sample (and Stats) requests, started from the empty
\* pool and interleaved in any way, whenever the lock is free (between two
\* calls and between the chunks of one Load) len(lines) equals
\* total_loaded - total_sampled, and every result of get_stats has
\* current_lines = total_loaded - total_sampled.
C1_Conservation ==
    /\ lock = NoOwner => I1
    /\ \A a \in Answered :
         (Has(a) /\ Resp(a).stats # NoStats) =>
            Resp(a).stats[1] = Resp(a).stats[2] - Resp(a).stats[3]

\* a Load stands between two of its chunks, the lock free, after a Sample
\* that removed lines has had its get_stats result
C1_Witness ==
    /\ lock = NoOwner
    /\ \E t \in Threads : pc[t] = "flush_lock" /\ frame[t].appended > 0
    /\ total_sampled > 0
    /\ \E a \in Answered :
         Has(a) /\ Resp(a).stats # NoStats /\ Resp(a).stats[3] > 0

----------------------------------------------------------------------------
(* C2 *)

\* C2 as stated: whenever the lock is free, after any Load, Sample, Stats,
\* Clear and Reset requests, len(lines) = total_loaded - total_sampled.
C2_I1AfterAnyOperation == lock = NoOwner => I1

\* C2, amended: whenever the lock is free, len(lines) equals
\* total_loaded - total_sampled minus the number of lines that Clear has
\* removed since the last Reset (since creation, if there was none).
C2_I1UpToCleared ==
    lock = NoOwner => Len(lines) = total_loaded - total_sampled - cleared

\* a Clear has removed lines, and lines were loaded and sampled around it
C2_Witness ==
    /\ lock = NoOwner
    /\ cleared > 0
    /\ Len(lines) > 0
    /\ \E a \in Answered : Has(a) /\ Resp(a).op = "clear" /\ Resp(a).count > 0

----------------------------------------------------------------------------
(* C3 *)

\* C3: every element appended by Load is handed out by Sample at most once:
\* put one after the other, the lists of lines that the Sample calls have
\* returned (or drawn so far) and the list still in the pool hold no
\* element twice; and when all loaded strings are distinct, the strings
\* returned are pairwise distinct, within one response and across any two.
C3_NoDuplicateSamples ==
    LET outs == AllOuts(Threads)
    IN /\ NoRepeat(outs \o lines)
       /\ DistinctTexts => NoRepeat(Texts(outs))

\* two threads each hold a non-empty sample of distinct loaded strings,
\* and a line is left in the pool
C3_Witness ==
    /\ DistinctTexts
    /\ \A t \in Threads : Len(OutsOf(t)) >= 1
    /\ Len(lines) > 0

----------------------------------------------------------------------------
(* C4 *)

\* The calls run alone, one after another, on a pool [ls, tl, ts] of
\* strings and the two counters: what load and sample then do and return.

RECURSIVE SerialFlushes(_, _, _, _)
SerialFlushes(s, content, pos, appended) ==
    LET b == NextBatch(content, pos)
        to_add == Prefix(b, Remaining(s.ls))
    IN IF b = <<>>
       THEN [pool |-> s, status |-> 200, count |-> appended]
       ELSE IF Remaining(s.ls) <= 0
       THEN [pool |-> s, status |-> 400, count |-> 0]
       ELSE SerialFlushes([s EXCEPT !.ls = Extended(@, to_add),
                                    !.tl = LoadedAfter(@, Len(to_add))],
                          content, pos + Len(b), appended + Len(to_add))

SerialLoad(s, f) ==
    IF FileCheck(f) # 200
    THEN [pool |-> s, status |-> FileCheck(f), count |-> 0]
    ELSE SerialFlushes(s, FileSys[f].content, 0, 0)

\* every way the k draws can go
RECURSIVE SerialDraws(_, _, _)
SerialDraws(s, k, out) ==
    IF Len(out) >= k
    THEN {[pool |-> s, status |-> 200, out |-> out]}
    ELSE IF Len(s.ls) = 0
    THEN {[pool |-> s, status |-> 400, out |-> out]}
    ELSE UNION {SerialDraws(
                    [s EXCEPT !.ls = PopRest(SwapWithLast(s.ls, i))],
                    k, Append(out, s.ls[i + 1])) :
                i \in 0 .. (Len(s.ls) - 1)}

SerialSample(s, n) ==
    IF RequestCheck(n) # 200
    THEN {[pool |-> s, status |-> RequestCheck(n), out |-> <<>>]}
    ELSE IF SampleCheck(n) # 200
    THEN {[pool |-> s, status |-> SampleCheck(n), out |-> <<>>]}
    ELSE {IF d.status = 200
          THEN [d EXCEPT !.pool.ts = SampledAfter(@, SampleK(n, s.ls))]
          ELSE d : d \in SerialDraws(s, SampleK(n, s.ls), <<>>)}

\* the answered Load and Sample calls
Calls == {a \in Answered : Has(a) /\ Resp(a).op \in {"load", "sample"}}

\* the orders in which they can be run one after another
Orders ==
    {o \in [1 .. Cardinality(Calls) -> Calls] :
        \A a \in Calls : \E i \in DOMAIN o : o[i] = a}

\* the pools in which the calls order[i], order[i+1], ... run alone can end
\* when started in a pool of S and returning what the calls did return
RECURSIVE SerialAfter(_, _, _)
SerialAfter(order, i, S) ==
    IF i > Len(order) THEN S
    ELSE LET c == Resp(order[i])
             loads == {SerialLoad(s, c.file) : s \in S}
             samples == UNION {SerialSample(s, c.n) : s \in S}
         IN SerialAfter(order, i + 1,
               IF c.op = "load"
               THEN {r.pool : r \in {x \in loads : /\ x.status = c.status
                                                   /\ x.count = c.count}}
               ELSE {r.pool : r \in {x \in samples :
                                        /\ x.status = c.status
                                        /\ x.out = Texts(c.out)}})

EmptyPool == [ls |-> <<>>, tl |-> 0, ts |-> 0]

Linearizable ==
    \E o \in Orders :
        [ls |-> Texts(lines), tl |-> total_loaded, ts |-> total_sampled]
            \in SerialAfter(o, 1, {EmptyPool})

OneChunkLoads ==
    \A a \in Calls :
        Resp(a).op = "load" => Len(FileSys[Resp(a).file].content) <= chunk_size

\* C4 as stated: when all the Load and Sample calls issued have returned,
\* what they returned and the pool they leave (lines, both counters) are
\* what the calls return and leave when run alone one after another in some
\* order, from the empty pool.
C4_Linearizable == AllIdle => Linearizable

\* C4, amended: the same, for Load calls of files of at most chunk_size
\* lines (each such Load makes one flush); a Load of a longer file releases
\* the lock between its chunks, and takes effect chunk by chunk.
C4_LinearizableOneChunk == (AllIdle /\ OneChunkLoads) => Linearizable

\* two threads have loaded a one-chunk file and sampled a line, and a line
\* is left
C4_Witness ==
    /\ AllIdle
    /\ OneChunkLoads
    /\ Len(lines) > 0
    /\ \E a, b \in Calls :
         /\ a[1] # b[1]
         /\ Resp(a).op = "load" /\ Resp(a).count > 0
         /\ Resp(b).op = "sample" /\ Len(Resp(b).out) > 0

----------------------------------------------------------------------------
(* C5, C6 *)

\* thread t leaves the critical section of sample in this step
SampleLeaves(t) ==
    /\ pc[t] \in {"sample_draw", "sample_count"}
    /\ lock = t
    /\ lock' # t

\* C5: a Sample(n) that was accepted, entering its critical section on a
\* pool of len lines, leaves it by returning exactly k = min(n, len) lines,
\* with len(lines) smaller by k, total_sampled greater by k and
\* total_loaded as it was.
C5_SampleExact ==
    [][\A t \in Threads :
         SampleLeaves(t) =>
            LET p == frame[t].pre
                k == Min(frame[t].n, Len(p.lines))
            IN /\ pc'[t] = "stats_lock"
               /\ Len(frame'[t].out) = k
               /\ Len(lines') = Len(p.lines) - k
               /\ total_sampled' = p.total_sampled + k
               /\ total_loaded' = p.total_loaded]_vars

\* a Sample has returned two lines and left at least one
C5_Witness ==
    \E t \in Threads :
        /\ pc[t] = "stats_lock"
        /\ frame[t].op = "sample"
        /\ Len(frame[t].out) = 2
        /\ frame[t].n = 2
        /\ Len(lines) > 0
        /\ total_sampled >= 2

\* C6: a Sample(n) with n above the number of lines in the pool (and within
\* the limit) returns normally, with as many lines as the pool held, and
\* leaves lines empty; a Sample that finds the pool empty returns the empty
\* list and leaves total_sampled as it was.
C6_Overshoot ==
    [][\A t \in Threads :
         SampleLeaves(t) =>
            LET p == frame[t].pre
            IN /\ frame[t].n > Len(p.lines) =>
                    /\ pc'[t] = "stats_lock"
                    /\ Len(frame'[t].out) = Len(p.lines)
                    /\ lines' = <<>>
               /\ p.lines = <<>> =>
                    /\ pc'[t] = "stats_lock"
                    /\ frame'[t].out = <<>>
                    /\ total_sampled' = p.total_sampled]_vars

\* a Sample asked for more than the pool held, and has returned what it held
C6_Witness ==
    \E t \in Threads :
        /\ pc[t] = "stats_lock"
        /\ frame[t].op = "sample"
        /\ Len(frame[t].out) >= 1
        /\ frame[t].n > Len(frame[t].out)
        /\ lines = <<>>

----------------------------------------------------------------------------
(* C7 *)

\* the request thread t is running, or starting, is a Sample(0)
ZeroSample(t) ==
    \/ frame[t].op = "sample" /\ frame[t].n = 0
    \/ frame'[t].op = "sample" /\ frame'[t].n = 0
    \/ /\ Len(hist'[t]) > Len(hist[t])
       /\ hist'[t][Len(hist'[t])].op = "sample"
       /\ hist'[t][Len(hist'[t])].n = 0

\* C7: no step of a Sample(0) request changes lines (content and order),
\* total_loaded or total_sampled, and its answer is the empty list, count 0
C7_SampleZeroNoOp ==
    [][\A t \in Threads :
         (Step(t) /\ ZeroSample(t)) =>
            /\ pool' = pool
            /\ frame'[t].out = <<>>
            /\ Len(hist'[t]) > Len(hist[t]) =>
                  LET r == hist'[t][Len(hist'[t])]
                  IN r.status = 200 /\ r.out = <<>> /\ r.count = 0]_vars

\* a Sample(0) was answered on a pool that holds lines, after lines were
\* sampled
C7_Witness ==
    /\ Len(lines) > 0
    /\ total_sampled > 0
    /\ \E a \in Answered :
         Has(a) /\ Resp(a).op = "sample" /\ Resp(a).n = 0
                /\ Resp(a).stats[1] > 0

----------------------------------------------------------------------------
(* C8 *)

InvalidCount(n) == n < 0 \/ n > MAX_SAMPLE_SIZE

\* C8: a Sample with n < 0 or n > MAX_SAMPLE_SIZE is refused with an error
\* (422 by the request model, 400 by cache.sample) in the step that issues
\* it, before the lock is taken: no thread is ever inside sample with such
\* a count, and the steps that refuse the request leave lines,
\* total_loaded, total_sampled and the lock as they were.
C8_InvalidSampleRejected ==
    [][\A t \in Threads :
         /\ (frame'[t].op = "sample" /\ InvalidCount(frame'[t].n)) =>
                /\ pc'[t] = "refused"
                /\ frame'[t].status \in {400, 422}
                /\ lock' # t
         /\ (/\ Step(t)
             /\ pc[t] = "refused" \/ pc'[t] = "refused"
             /\ frame[t].op = "sample" \/ frame'[t].op = "sample") =>
                /\ lock' = lock
                /\ pool' = pool]_vars

\* a count above the limit is refused although the pool holds that many
\* lines
C8_Witness ==
    \E t \in Threads :
        /\ pc[t] = "refused"
        /\ frame[t].op = "sample"
        /\ frame[t].n > MAX_SAMPLE_SIZE
        /\ frame[t].status = 400
        /\ Len(lines) >= frame[t].n

----------------------------------------------------------------------------
(* C9 *)

\* C9: a Load that ends in an error has appended nothing: the number of
\* lines the call itself added to lines (and to total_loaded) is 0.
C9_RejectedLoadAppendsNothing ==
    \A a \in Answered :
        (Has(a) /\ Resp(a).op = "load" /\ Resp(a).status # 200) =>
           Resp(a).added = 0

----------------------------------------------------------------------------
(* C10 *)

FileLen(f) == Len(FileSys[f].content)

\* thread t has made the only two requests so far, one after the other:
\* two Loads of files that pass the file checks and together fit the cache
TwoLoadsBy(t) ==
    /\ ncalls = 2
    /\ AllIdle
    /\ Len(hist[t]) = 2
    /\ \A j \in 1 .. 2 :
         hist[t][j].op = "load" /\ FileCheck(hist[t][j].file) = 200
    /\ FileLen(hist[t][1].file) + FileLen(hist[t][2].file) <= MAX_CACHE_LINES

TwoLoadsAdd ==
    \A t \in Threads :
        TwoLoadsBy(t) =>
           LET L1 == FileLen(hist[t][1].file)
               L2 == FileLen(hist[t][2].file)
           IN /\ hist[t][1].status = 200 /\ hist[t][1].count = L1
              /\ hist[t][2].status = 200 /\ hist[t][2].count = L2
              /\ Len(lines) = L1 + L2
              /\ total_loaded = L1 + L2

\* C10: no step of a Load removes or overwrites an element of lines (the
\* old list is a prefix of the new one), and two Loads in sequence of files
\* of L1 and L2 lines that fit the cache, nothing else being run, return L1
\* and L2 and leave len(lines) = total_loaded = L1 + L2.
C10_AppendOnlyLoad ==
    [][/\ \A t \in Threads :
            (Step(t) /\ (frame[t].op = "load" \/ frame'[t].op = "load")) =>
               /\ Len(lines') >= Len(lines)
               /\ SubSeq(lines', 1, Len(lines)) = lines
       /\ TwoLoadsAdd']_vars

\* two files of two lines
C10_Witness ==
    \E t \in Threads :
        /\ TwoLoadsBy(t)
        /\ FileLen(hist[t][1].file) = 2
        /\ FileLen(hist[t][2].file) = 2
        /\ Len(lines) = 4

----------------------------------------------------------------------------
(* C11 *)

\* the answered Loads
Loads == {a \in Answered : Has(a) /\ Resp(a).op = "load"}

\* the sum of what[a] over the answers of A
RECURSIVE SumOver(_, _)
SumOver(A, what) ==
    IF A = {} THEN 0
    ELSE LET a == CHOOSE x \in A : TRUE
         IN what[a] + SumOver(A \ {a}, what)

\* the length of the file of each Load, and the count each Load returned
LoadLen == [a \in Loads |-> FileLen(Resp(a).file)]

LoadCount == [a \in Loads |-> Resp(a).count]

\* the Loads were of files that together fit the cache
LoadsFit == SumOver(Loads, LoadLen) <= MAX_CACHE_LINES

----------------------------------------------------------------------------
(* C12 *)

\* C12: with Loads and Samples interleaved in any way and no Clear or Reset,
\* every element a Sample has returned was appended by a Load before, and
\* whenever the lock is free the elements returned so far together with the
\* elements in lines are exactly the elements appended so far, each once
\* (equal strings are different elements).
C12_NothingLostOrInvented ==
    /\ Elems(AllOuts(Threads)) \subseteq loaded
    /\ lock = NoOwner =>
          /\ Elems(AllOuts(Threads) \o lines) = loaded
          /\ Len(AllOuts(Threads)) + Len(lines) = Cardinality(loaded)

\* a Load stands between two chunks, a Sample has returned a line, a line is
\* left, and two of the loaded elements are the same string
C12_Witness ==
    /\ lock = NoOwner
    /\ \E t \in Threads : pc[t] = "flush_lock" /\ frame[t].appended > 0
    /\ Len(AllOuts(Threads)) > 0
    /\ Len(lines) > 0
    /\ ~DistinctTexts

----------------------------------------------------------------------------
(* C13 *)

\* thread t is inside get_stats, holding the lock
InStats(t) == pc[t] \in {"stats_len", "stats_loaded", "stats_read"}

\* the pool is the pool thread t found when it took the lock
AsFound(t) ==
    /\ lock = t
    /\ lines = frame[t].pre.lines
    /\ total_loaded = frame[t].pre.total_loaded
    /\ total_sampled = frame[t].pre.total_sampled

\* this step answers a request of thread t, and the answer it gives
Answers(t) == Len(hist'[t]) > Len(hist[t])

Given(t) == hist'[t][Len(hist'[t])]

\* the answers to requests of one kind
AnswersTo(op) == {a \in Answered : Resp(a).op = op}

\* C13: get_stats changes nothing and returns the sizes of one pool state
\* that existed during the call: from the moment it has the lock until it
\* returns, the pool is the pool it found (neither it nor a concurrent Load,
\* Sample, Clear or Reset changes it), each value it has read so far is a
\* value of that pool, and the triple it returns is the triple of that
\* pool, which is also the pool it leaves.
C13_StatsSnapshot ==
    [][\A t \in Threads :
         InStats(t) =>
            /\ AsFound(t)
            /\ pc[t] # "stats_len" => frame[t].st[1] = Len(lines)
            /\ pc[t] = "stats_read" => frame[t].st[2] = total_loaded
            /\ pool' = pool
            /\ Answers(t) =>
                  /\ Given(t).stats = Sizes(lines, total_loaded, total_sampled)
                  /\ Given(t).stats = Given(t).found
                  /\ Given(t).left = Given(t).found]_vars

\* a /stats request was answered with the sizes of a pool that holds the
\* first chunk of a Load another thread is still running, after a Clear or
\* a Reset
C13_Witness ==
    \E t, u \in Threads :
        /\ hist[t] # <<>>
        /\ hist[t][Len(hist[t])].op = "stats"
        /\ hist[t][Len(hist[t])].stats = <<2, 2, 0>>
        /\ \E j \in 1 .. Len(hist[t]) : hist[t][j].op \in {"clear", "reset"}
        /\ pc[u] = "flush_lock"
        /\ frame[u].appended = 2

----------------------------------------------------------------------------
(* C14 *)

\* C14: Clear is atomic (from taking the lock to its one step nothing
\* changes the pool), its step returns the number of lines the pool had
\* just before, and leaves the pool with no lines and with total_loaded and
\* total_sampled as they were.
C14_Clear ==
    [][\A t \in Threads :
         pc[t] = "clear_body" =>
            /\ AsFound(t)
            /\ Step(t) =>
                  /\ Answers(t)
                  /\ Given(t).status = 200
                  /\ Given(t).count = Len(lines)
                  /\ lines' = <<>>
                  /\ total_loaded' = total_loaded
                  /\ total_sampled' = total_sampled
                  /\ lock' = NoOwner]_vars

\* a Clear of a pool of two lines, three loaded and one sampled
C14_Witness ==
    \E a \in AnswersTo("clear") :
        /\ Resp(a).count = 2
        /\ Resp(a).left = <<0, 3, 1>>

----------------------------------------------------------------------------
(* C15 *)

\* thread u has not run an operation of the pool
Quiet(u) == pc[u] \in {"idle", "refused"} /\ hist[u] = <<>>

\* answer j of thread t is a Reset and its next answer is a Stats
ResetThenStats(t, j) ==
    /\ j + 1 <= Len(hist[t])
    /\ hist[t][j].op = "reset"
    /\ hist[t][j + 1].op = "stats"

\* C15: Reset is atomic, its step returns the number of lines the pool had
\* just before, and leaves the pool with no lines and both counters 0; and
\* when a thread runs a Stats right after its Reset while no other thread
\* operates on the pool, that Stats reports (0, 0, 0).
C15_Reset ==
    [][\A t \in Threads :
         /\ pc[t] = "reset_body" =>
               /\ AsFound(t)
               /\ Step(t) =>
                     /\ Answers(t)
                     /\ Given(t).status = 200
                     /\ Given(t).count = Len(lines)
                     /\ lines' = <<>>
                     /\ total_loaded' = 0
                     /\ total_sampled' = 0
                     /\ lock' = NoOwner
         /\ (/\ Answers(t)
             /\ Given(t).op = "stats"
             /\ hist[t] # <<>>
             /\ hist[t][Len(hist[t])].op = "reset"
             /\ \A u \in Threads \ {t} : Quiet(u)) =>
                Given(t).stats = <<0, 0, 0>>]_vars

\* a Load of three lines, a Reset that returns 3, then a Stats
C15_Witness ==
    \E t \in Threads :
        /\ \A u \in Threads \ {t} : Quiet(u)
        /\ Len(hist[t]) = 3
        /\ hist[t][1].op = "load"
        /\ hist[t][2].count = 3
        /\ ResetThenStats(t, 2)

----------------------------------------------------------------------------
(* C16 *)

\* the Loads that returned normally
LoadsReturned == {a \in AnswersTo("load") : Resp(a).status = 200}

\* C16: a Load that returns normally returns the number of elements it
\* appended to lines, which is the amount by which it raised total_loaded:
\* the length of the file when the limit cut no batch, and the (smaller)
\* number accepted when the limit cut one.
C16_LoadReturnsAppended ==
    [][\A t \in Threads :
         (Answers(t) /\ Given(t).op = "load" /\ Given(t).status = 200) =>
            /\ Given(t).count = Given(t).added
            /\ Given(t).count = Given(t).raised
            /\ ~Given(t).cut => Given(t).count = FileLen(Given(t).file)
            /\ Given(t).cut => Given(t).count < FileLen(Given(t).file)]_vars

\* a Load of the two lines of file B returned 1: the limit cut its batch
C16_Witness ==
    \E a \in LoadsReturned :
        /\ Resp(a).cut
        /\ Resp(a).file = "B"
        /\ Resp(a).count = 1
        /\ Resp(a).added = 1

----------------------------------------------------------------------------
(* C17 *)

\* the /load and /sample answers that report a pool size: the call changed
\* or read lines under the lock (after is the length it left) and the
\* handler then read the statistics
ReportsSize ==
    {a \in AnswersTo("load") \cup AnswersTo("sample") :
        Resp(a).status = 200 /\ Resp(a).after >= 0}

\* C17: the pool size in the answer to a /load or /sample request
\* (total_lines_in_cache, remaining_in_cache) is the length lines had right
\* after that call's last append or its removals, also when other requests
\* run at the same time.
C17_ReportedSizeIsOwn ==
    \A a \in ReportsSize : Resp(a).stats[1] = Resp(a).after

----------------------------------------------------------------------------
(* C18 *)

\* the file is missing, cannot be read, or is larger than the size limit
BadFile(f) ==
    \/ ~FileSys[f].exists
    \/ ~FileSys[f].readable
    \/ FileSys[f].size_mb > MAX_FILE_SIZE_MB

\* C18: a Load of a missing, unreadable or too large file is refused with an
\* error (404 when the file is missing) in the step that issues it, before
\* any lock is taken: no thread is ever inside load with such a file, and
\* the steps that refuse the request leave lines, total_loaded,
\* total_sampled and the lock as they were.
C18_BadFileLoadRejected ==
    [][\A t \in Threads :
         /\ (frame'[t].op = "load" /\ BadFile(frame'[t].file)) =>
                /\ pc'[t] = "refused"
                /\ frame'[t].status \in {400, 403, 404}
                /\ ~FileSys[frame'[t].file].exists => frame'[t].status = 404
                /\ lock' # t
         /\ (/\ Step(t)
             /\ pc[t] = "refused" \/ pc'[t] = "refused"
             /\ frame[t].op = "load" \/ frame'[t].op = "load") =>
                /\ lock' = lock
                /\ pool' = pool]_vars

\* the Load of a missing file is refused with 404 while the pool holds
\* lines and another thread is inside a critical section
C18_Witness ==
    \E t \in Threads :
        /\ pc[t] = "refused"
        /\ frame[t].op = "load"
        /\ ~FileSys[frame[t].file].exists
        /\ frame[t].status = 404
        /\ Len(lines) > 0
        /\ lock \in Threads

----------------------------------------------------------------------------
(* C19 *)

\* C19: total_loaded and total_sampled never go down in a step of Load,
\* Sample, Stats or Clear; the only step that lowers one of them is the
\* step of Reset, and it sets both to 0.
C19_CountersMonotonic ==
    [][(total_loaded' < total_loaded \/ total_sampled' < total_sampled) =>
          /\ \E t \in Threads :
                /\ frame[t].op = "reset"
                /\ pc[t] = "reset_body"
                /\ pc'[t] = "idle"
          /\ total_loaded' = 0
          /\ total_sampled' = 0]_vars

\* a Reset found both counters above 0 and left them 0
C19_Witness ==
    \E a \in AnswersTo("reset") :
        /\ Resp(a).found[2] > 0
        /\ Resp(a).found[3] > 0
        /\ Resp(a).left = <<0, 0, 0>>

----------------------------------------------------------------------------
(* C20 *)

\* thread t, inside the loop of sample, has rounds left that the live
\* length covers: the length is what it found less what it has drawn
DrawsFit(t) ==
    /\ Len(frame[t].out) < frame[t].k
    /\ frame[t].k <= Len(frame[t].pre.lines)
    /\ Len(lines) = Len(frame[t].pre.lines) - Len(frame[t].out)
    /\ Len(lines) >= frame[t].k - Len(frame[t].out)

\* C20: every round of the loop of sample is well formed, whatever Sample,
\* Clear and Reset requests the other threads have issued: the thread holds
\* the lock, lines has at least one element when an index below its length
\* is drawn, its length goes down by one with each element drawn, the k
\* rounds end with k elements drawn, and no Sample fails in a round.
C20_DrawsWellFormed ==
    /\ \A t \in Threads :
          /\ pc[t] = "sample_draw" =>
                /\ lock = t
                /\ Len(lines) >= 1
                /\ DrawsFit(t)
          /\ pc[t] = "sample_count" =>
                /\ lock = t
                /\ Len(frame[t].out) = frame[t].k
                /\ Len(lines) = Len(frame[t].pre.lines) - frame[t].k
    /\ \A a \in AnswersTo("sample") :
          /\ Resp(a).status = 200
          /\ Len(Resp(a).out) = Resp(a).count

\* a Sample is between its first and its second round while the other
\* thread has issued a Clear, a Reset or a Sample and waits for the lock
C20_Witness ==
    \E t, u \in Threads :
        /\ pc[t] = "sample_draw"
        /\ frame[t].k = 2
        /\ Len(frame[t].out) = 1
        /\ pc[u] \in {"clear_lock", "reset_lock", "sample_lock"}

----------------------------------------------------------------------------
(* C21 *)

\* thread t is running a call
Running(t) == pc[t] # "idle"

\* thread t is inside a with self.lock block
InSection(t) ==
    pc[t] \in {"flush_extend", "flush_count", "sample_draw", "sample_count",
               "stats_len", "stats_loaded", "stats_read", "clear_body",
               "reset_body"}

\* the lock is held by the thread that is inside a critical section, and is
\* free when none is
LockDiscipline ==
    /\ \A t \in Threads : lock = t <=> InSection(t)
    /\ lock = NoOwner <=> \A t \in Threads : ~InSection(t)

\* a running call can take a step, or it waits for the lock and the call
\* that holds the lock can take a step
NoDeadlock ==
    \A t \in Threads :
        Running(t) =>
           \/ ENABLED Proceed(t)
           \/ \E u \in Threads \ {t} : lock = u /\ ENABLED Proceed(u)

\* C21: with the threads calling Load, Sample, Stats, Clear and Reset at the
\* same time and scheduled fairly, every call that is running returns or
\* raises in the end; the lock is free whenever no call is inside a
\* critical section (also after _flush_batch has raised at the cache
\* limit); and no running call is ever stuck.
C21_NoCallSuspends ==
    /\ \A t \in Threads : Running(t) ~> ~Running(t)
    /\ [](LockDiscipline /\ NoDeadlock)

\* _flush_batch has raised at the cache limit and /load has answered 400;
\* the lock is free, and the other thread, whose call is still running,
\* can take it
C21_Witness ==
    \E t, u \in Threads :
        /\ hist[t] # <<>>
        /\ hist[t][Len(hist[t])].op = "load"
        /\ hist[t][Len(hist[t])].status = 400
        /\ pc[t] = "idle"
        /\ lock = NoOwner
        /\ pc[u] \in {"flush_lock", "sample_lock", "stats_lock",
                      "clear_lock", "reset_lock"}

----------------------------------------------------------------------------
(* C22 *)

\* the pool is at its limit
AtLimit == Len(lines) >= MAX_CACHE_LINES

\* C22: lines never holds more than MAX_CACHE_LINES elements; the step of
\* _flush_batch that extends lines appends at most MAX_CACHE_LINES -
\* len(lines) elements; and when the pool is at the limit already, that
\* step raises (the load is answered 400) and appends nothing.
C22_CapacityBound ==
    [][/\ Len(lines) <= MAX_CACHE_LINES
       /\ Len(lines') <= MAX_CACHE_LINES
       /\ \A t \in Threads :
             (pc[t] = "flush_extend" /\ Step(t)) =>
                /\ frame[t].batch # <<>>
                /\ Len(lines') - Len(lines) <= MAX_CACHE_LINES - Len(lines)
                /\ SubSeq(lines', 1, Len(lines)) = lines
                /\ AtLimit =>
                      /\ lines' = lines
                      /\ total_loaded' = total_loaded
                      /\ Answers(t)
                      /\ Given(t).status = 400
                /\ ~AtLimit => Len(lines') > Len(lines) /\ ~Answers(t)]_vars

\* the pool is full: a Load had a batch cut to the last free place, and
\* its next batch was refused by _flush_batch at the limit
C22_Witness ==
    /\ AtLimit
    /\ \E a \in AnswersTo("load") :
          /\ Resp(a).status = 400
          /\ Resp(a).cut
          /\ Resp(a).found[1] = MAX_CACHE_LINES
          /\ Resp(a).left[1] = MAX_CACHE_LINES

----------------------------------------------------------------------------
(* C23 *)

\* the lines that were loaded and neither sampled nor are in the pool
Gone == total_loaded - total_sampled - Len(lines)

\* thread t is inside load or sample
LoadOrSample(t) ==
    pc[t] \in {"flush_lock", "flush_extend", "flush_count",
               "sample_lock", "sample_draw", "sample_count"}

====
